---- MODULE Spec2Model ----
(***************************************************************************)
(* State-machine model of yt_cli_downloader.py: one interactive session    *)
(* (setup, prompts, metadata queries, per-item download / fallback / trim  *)
(* loop, end-of-run summary).                                              *)
(*                                                                         *)
(* Texts are sequences of one-character strings, so that strip, split,     *)
(* lower, substring search, isdigit and int are computed as Python does.   *)
(* The element "sup2" stands for the single character U+00B2 (superscript  *)
(* two), for which str.isdigit() is True and int() raises ValueError.      *)
(***************************************************************************)
EXTENDS Integers, Sequences, FiniteSets, TLC

VARIABLES
    pc,                 \* position of main() (or a terminal position)
    crash,              \* "none", or the uncaught exception that ended the process
    typed,              \* text most recently read by input() (at a menu: sel, the
                        \* stripped line of line 84), until the next step prints
    url,                \* main: url
    is_playlist,        \* main: is_playlist
    download_all,       \* main: download_all
    selected_indices,   \* main: selected_indices
    flat_len,           \* main: len(entries) of the extract_flat query
    is_audio,           \* main: is_audio
    audio_fmt,          \* main: audio_fmt
    res,                \* main: res
    start,              \* main: start
    end,                \* main: end
    trim_tag,           \* the "_<start>-<end>" text appended to quality_tag_base (<<>>: none)
    dir_created,        \* out_dir.mkdir() has run
    asked,              \* the prompts shown so far, in order
    meta_queries,       \* number of extract_info(download=False) calls made
    all_entries,        \* main: all_entries (line 179), until the loop starts
    entries,            \* main: entries (after line 175 / 180)
    idx,                \* position of the for loop in entries (1-based, next to visit)
    started,            \* positions of entries whose "Downloading:" line was printed
    cur_title,          \* title of the item being processed
    attempts,           \* FetchAttempts handed to the extraction library for this item
    cuts,               \* transcoder invocations made for this item
    printed,            \* messages printed for this item
    success,            \* main: success
    error_msg,          \* main: error_msg (line 313), NoneT while no error was caught
    placed,             \* the temporary cut was renamed to final_file for this item
    files,              \* out_dir: file records, oldest modification first
    files_at_plan,      \* names present in out_dir when the item's outtmpl was computed
    src_file,           \* main: src_file (a name, or NoName)
    rc,                 \* main: rc of the stream-copy subprocess.call
    tried,              \* cut kinds attempted in this item's trim pass
    summary,            \* "none", or what the end-of-run summary reported
    template            \* what a call of unique_template returned (NoName: no call)

vars == <<pc, crash, typed, url, is_playlist, download_all,
          selected_indices, flat_len, is_audio, audio_fmt, res, start, end,
          trim_tag, dir_created, asked, meta_queries, all_entries, entries, idx,
          started, cur_title, attempts, cuts, printed, success, error_msg,
          placed, files, files_at_plan, src_file, rc, tried, summary, template>>

----------------------------------------------------------------------------
(* Bounds of the model *)

MaxMembers == 2         \* longest collection enumerated
MaxRawLen == 3          \* longest text typed at the member-selection prompt
MaxAskLen == 1          \* longest text typed at a menu
MaxDup == 3             \* highest "(n)" a directory of SpecUnique starts with
MaxTimeLen == 5         \* longest timestamp text explored by SpecNorm

----------------------------------------------------------------------------
(* Python values *)

NoneT == <<"None">>           \* Python None where a str is expected
\* a metadata entry: its webpage_url (members are numbered by position) and title
Entry(u, t) == [webpage_url |-> u, title |-> t]
NullEntry == Entry(0, <<"None">>)   \* a None member of a collection
Truthy(s) == s # NoneT /\ s # <<>>

----------------------------------------------------------------------------
(* str methods *)

Uppers == <<"A","B","C","D","E","F","G","H","I","J","K","L","M",
            "N","O","P","Q","R","S","T","U","V","W","X","Y","Z">>
Lowers == <<"a","b","c","d","e","f","g","h","i","j","k","l","m",
            "n","o","p","q","r","s","t","u","v","w","x","y","z">>

LowerChar(c) ==
    IF \E i \in 1..Len(Uppers) : Uppers[i] = c
    THEN Lowers[CHOOSE i \in 1..Len(Uppers) : Uppers[i] = c]
    ELSE c

Lower(s) == [i \in 1..Len(s) |-> LowerChar(s[i])]

Contains(s, sub) ==
    \E i \in 1..(Len(s) - Len(sub) + 1) : SubSeq(s, i, i + Len(sub) - 1) = sub

StartsWith(s, p) == Len(s) >= Len(p) /\ SubSeq(s, 1, Len(p)) = p

IsSpace(c) == c = " "

RECURSIVE LStrip(_)
LStrip(s) == IF s # <<>> /\ IsSpace(Head(s)) THEN LStrip(Tail(s)) ELSE s

RECURSIVE RStrip(_)
RStrip(s) ==
    IF s # <<>> /\ IsSpace(s[Len(s)]) THEN RStrip(SubSeq(s, 1, Len(s) - 1)) ELSE s

Strip(s) == RStrip(LStrip(s))

\* s.split(sep) for a one-character sep: always at least one field
RECURSIVE Split(_, _)
Split(s, sep) ==
    IF \A i \in 1..Len(s) : s[i] # sep
    THEN <<s>>
    ELSE LET i == CHOOSE j \in 1..Len(s) :
                      s[j] = sep /\ \A k \in 1..(j - 1) : s[k] # sep
         IN <<SubSeq(s, 1, i - 1)>> \o Split(SubSeq(s, i + 1, Len(s)), sep)

\* s.replace(c, "")
RECURSIVE Remove(_, _)
Remove(s, c) ==
    IF s = <<>> THEN <<>>
    ELSE IF Head(s) = c THEN Remove(Tail(s), c)
    ELSE <<Head(s)>> \o Remove(Tail(s), c)

\* s.zfill(w) for a text without a sign
RECURSIVE ZFill(_, _)
ZFill(s, w) == IF Len(s) >= w THEN s ELSE ZFill(<<"0">> \o s, w)

DecimalChars == <<"0","1","2","3","4","5","6","7","8","9">>
IsDecimalChar(c) == \E i \in 1..10 : DecimalChars[i] = c
DigitValue(c) == (CHOOSE i \in 1..10 : DecimalChars[i] = c) - 1

\* characters with Numeric_Type=Digit that are not decimal digits
IsOtherDigitChar(c) == c = "sup2"

\* str.isdigit(): non-empty and every character a digit
IsDigit(s) ==
    s # <<>> /\ \A i \in 1..Len(s) : IsDecimalChar(s[i]) \/ IsOtherDigitChar(s[i])

\* int(s) accepts s that passed isdigit() only when every character is decimal
IntRaises(s) == \E i \in 1..Len(s) : ~IsDecimalChar(s[i])

RECURSIVE IntOf(_)
IntOf(s) ==
    IF s = <<>> THEN 0
    ELSE 10 * IntOf(SubSeq(s, 1, Len(s) - 1)) + DigitValue(s[Len(s)])

\* all texts over an alphabet up to a length
RECURSIVE TextsOfLen(_, _)
TextsOfLen(alphabet, n) ==
    IF n = 0 THEN {<<>>}
    ELSE {<<c>> \o t : c \in alphabet, t \in TextsOfLen(alphabet, n - 1)}

TextsUpTo(alphabet, n) == UNION {TextsOfLen(alphabet, k) : k \in 0..n}

----------------------------------------------------------------------------
(* Input domains explored *)

AskAlphabet == {"0", "1", "2", "5", "x", "sup2", " "}
AskTexts == TextsUpTo(AskAlphabet, MaxAskLen)

UrlTexts == { <<>>, <<" ">>, <<"v","=","a">>, <<"l","i","s","t","=","p">> }

SelAlphabet == {"0", "1", "2", "3", ",", " ", "x", "sup2"}
SelTexts == TextsUpTo(SelAlphabet, MaxRawLen)

\* lines typed at the start and the end prompt: nothing; a start alone; two
\* and three fields; one and four fields
TimeTexts == { << <<>>, <<>> >>,
               << <<" ","1",":","3","0">>, <<>> >>,
               << <<" ","1",":","3","0">>, <<"0",":","0","2",":","0","0">> >>,
               << <<"9","0">>, <<"1",":","2",":","3",":","4">> >> }

\* sanitized titles of the items
Titles == { <<"a">> }

\* messages of the errors the extraction library raises
ErrMsgs == { <<"S","A","B","R">>, <<"n","o"," ","F","o","r","m","a","t">>,
             <<"4","0","3">> }

\* collections of n members: member k is video k with some title, or null
Playlists(n) ==
    {m \in [1..n -> {Entry(k, t) : k \in 1..n, t \in Titles} \cup {NullEntry}] :
        \A k \in 1..n : m[k] = NullEntry \/ m[k].webpage_url = k}

----------------------------------------------------------------------------
(* ask (lines 79-87) *)

MenuPlaylist == <<"Semua video", "Pilih sebagian">>
MenuMode == <<"Video (mp4)", "Audio only">>
MenuCodec == <<"mp3", "m4a", "opus">>
MenuRes == <<"1080p", "720p", "480p", "360p", "auto">>
MenuPartialAudio == <<"Full audio", "Specific time range">>
MenuPartialVideo == <<"Full video", "Specific time range">>

\* the outcome of one pass of ask's loop on the line read by input()
ask(choices, raw) ==
    LET sel == Strip(raw) IN
    IF ~IsDigit(sel) THEN [kind |-> "invalid", value |-> "-"]
    ELSE IF IntRaises(sel) THEN [kind |-> "raise", value |-> "-"]
    ELSE IF 1 <= IntOf(sel) /\ IntOf(sel) <= Len(choices)
         THEN [kind |-> "return", value |-> choices[IntOf(sel)]]
         ELSE [kind |-> "invalid", value |-> "-"]

----------------------------------------------------------------------------
(* pieces of main *)

ListMarker == <<"l","i","s","t","=">>

\* a variant that also prefixes a three-field text
NormalizeTime_PadsThree(t) ==
    IF Len(Split(t, ":")) >= 2 THEN <<"0","0",":">> \o t ELSE t

\* lines 140-143 and 153-156
NormalizeTime(t) ==
    IF Len(Split(t, ":")) = 2 THEN <<"0","0",":">> \o t ELSE t

\* lines 144 and 157: the text appended to quality_tag_base
TrimTag(s, e) ==
    <<"_">> \o ZFill(Remove(s, ":"), 6) \o <<"-">> \o ZFill(Remove(e, ":"), 6)

\* line 124: the tokens kept, as texts
RECURSIVE DigitTokens(_)
DigitTokens(tokens) ==
    IF tokens = <<>> THEN <<>>
    ELSE IF IsDigit(Strip(Head(tokens)))
         THEN <<Strip(Head(tokens))>> \o DigitTokens(Tail(tokens))
         ELSE DigitTokens(Tail(tokens))

\* line 124: int(x.strip()) - 1
IndexOfToken(t) == IntOf(t) - 1

\* a variant that loses the first member
InRangeIndex_OffByOne(i, n) == 0 < i /\ i < n

\* line 125
InRangeIndex(i, n) == 0 <= i /\ i < n

\* lines 124-125: the selected indices, or "exit" when int() raises (line 127)
ParseSelection(raw, n) ==
    LET toks == DigitTokens(Split(raw, ","))
        InRange(i) == InRangeIndex(i, n)
    IN IF \E k \in 1..Len(toks) : IntRaises(toks[k])
       THEN [kind |-> "exit", value |-> <<>>]
       ELSE [kind |-> "ok",
             value |-> SelectSeq([k \in 1..Len(toks) |-> IndexOfToken(toks[k])], InRange)]

\* line 180
RECURSIVE FilterEntries(_, _, _, _)
FilterEntries(all, i, all_flag, sel) ==
    IF i > Len(all) THEN <<>>
    ELSE (IF all_flag \/ \E k \in 1..Len(sel) : sel[k] = i - 1
          THEN <<all[i]>> ELSE <<>>) \o FilterEntries(all, i + 1, all_flag, sel)

----------------------------------------------------------------------------
(* The output directory *)

\* line 280 / 295: the size threshold of a usable cut
MinBytes == 1024

\* sizes a transcoder output can have
Sizes == {MinBytes - 1, MinBytes, MinBytes + 1}

\* A file name of out_dir: <title>_<quality_tag_base><dup>.<ext>, where dup is
\* "" (d = 0) or " (d)", and ext may be the temporary cut's "clip.tmp.mp4".
Name(t, d, x) == [t |-> t, d |-> d, x |-> x]
NoName == Name(<<>>, 0, "-")
TmpExt == "clip.tmp.mp4"

\* Path.suffix
Suffix(name) == IF name.x = TmpExt THEN "mp4" ELSE name.x

File(name, data, size) == [name |-> name, data |-> data, size |-> size]

Exists(fs, name) == \E i \in 1..Len(fs) : fs[i].name = name
FileAt(fs, name) == fs[CHOOSE i \in 1..Len(fs) : fs[i].name = name]
SizeOf(fs, name) == FileAt(fs, name).size
NamesOf(fs) == {fs[i].name : i \in 1..Len(fs)}

\* Path.unlink
Delete(fs, name) ==
    LET Keep(f) == f.name # name IN SelectSeq(fs, Keep)

\* create or replace: the file becomes the most recently modified
Write(fs, f) == Append(Delete(fs, f.name), f)

\* Path.rename onto a free name: the modification time is kept
Rename(fs, from, to) ==
    [i \in 1..Len(fs) |->
        IF fs[i].name = from THEN [fs[i] EXCEPT !.name = to] ELSE fs[i]]

\* max(candidates, key=st_mtime) over the names matching a test, or NoName
RECURSIVE Newest(_, _)
Newest(fs, matching) ==
    IF fs = <<>> THEN NoName
    ELSE IF fs[Len(fs)].name \in matching THEN fs[Len(fs)].name
    ELSE Newest(SubSeq(fs, 1, Len(fs) - 1), matching)

\* lines 92-97: the while loop of unique_template, entered with counter n
RECURSIVE UniqueFrom(_, _, _, _)
UniqueFrom(directory, base, ext, n) ==
    IF ~Exists(directory, Name(base, n, ext))
    THEN Name(base, n, "%(ext)s")
    ELSE UniqueFrom(directory, base, ext, n + 1)

\* a variant whose scan skips the unsuffixed candidate
unique_template_FromOne(directory, base, ext) == UniqueFrom(directory, base, ext, 1)

\* lines 89-98
unique_template(directory, base, ext) == UniqueFrom(directory, base, ext, 0)

\* directories the session can start with (names of the first title)
OldMp4 == File(Name(<<"a">>, 0, "mp4"), "old", MinBytes * 4)
OldTmp == File(Name(<<"a">>, 0, TmpExt), "old", MinBytes + 1)
InitialDirs == { <<>>, <<OldMp4>>, <<OldTmp>> }

----------------------------------------------------------------------------
(* Initial state: the module has been imported, setup has not run yet *)

Init ==
    /\ pc = "setup"
    /\ crash = "none"
    /\ typed = <<>>
    /\ url = <<>>
    /\ is_playlist = FALSE
    /\ download_all = TRUE
    /\ selected_indices = <<>>
    /\ flat_len = 0
    /\ is_audio = FALSE
    /\ audio_fmt = "-"
    /\ res = "-"
    /\ start = NoneT
    /\ end = NoneT
    /\ trim_tag = <<>>
    /\ dir_created = FALSE
    /\ asked = <<>>
    /\ meta_queries = 0
    /\ all_entries = <<>>
    /\ entries = <<>>
    /\ idx = 0
    /\ started = <<>>
    /\ cur_title = <<>>
    /\ attempts = <<>>
    /\ cuts = <<>>
    /\ printed = <<>>
    /\ success = FALSE
    /\ error_msg = NoneT
    /\ placed = FALSE
    /\ files \in InitialDirs
    /\ files_at_plan = {}
    /\ src_file = NoName
    /\ rc = 0
    /\ tried = {}
    /\ summary = "none"
    /\ template = NoName

requestVars == <<url, is_playlist, download_all, selected_indices, flat_len,
                 is_audio, audio_fmt, res, start, end, trim_tag>>
catalogVars == <<meta_queries, all_entries, entries>>
itemVars == <<idx, started, cur_title, attempts, cuts, printed, success,
              error_msg, placed, files_at_plan, src_file, rc, tried>>
driverVars == <<itemVars, files, summary>>

----------------------------------------------------------------------------
(* One-time setup (lines 14-71) *)

SetupOk ==
    /\ pc = "setup"
    /\ pc' = "url"
    /\ UNCHANGED <<crash, typed, requestVars, dir_created, asked,
                   catalogVars, driverVars>>
    /\ UNCHANGED template

\* sys.exit at line 66, or an uncaught CalledProcessError of lines 19-20
SetupFail ==
    /\ pc = "setup"
    /\ pc' = "exit_setup"
    /\ UNCHANGED <<crash, typed, requestVars, dir_created, asked,
                   catalogVars, driverVars>>
    /\ UNCHANGED template

----------------------------------------------------------------------------
(* Intent Resolver and the shallow catalog query (lines 103-157) *)

\* lines 103-109
EnterUrl ==
    /\ pc = "url"
    /\ \E raw \in UrlTexts :
        /\ typed' = raw
        /\ url' = Strip(raw)
        /\ asked' = Append(asked, "url")
        /\ IF Strip(raw) = <<>>
           THEN /\ pc' = "exit_url"
                /\ UNCHANGED <<is_playlist, download_all, selected_indices>>
           ELSE /\ is_playlist' = Contains(Strip(raw), ListMarker)
                /\ download_all' = TRUE
                /\ selected_indices' = <<>>
                /\ pc' = IF Contains(Strip(raw), ListMarker) THEN "flat_query" ELSE "ask_mode"
    /\ UNCHANGED <<crash, flat_len, is_audio, audio_fmt, res, start, end,
                   trim_tag, dir_created, catalogVars, driverVars>>
    /\ UNCHANGED template

\* lines 112-115: the extract_flat query returns the member list, or raises
FlatQuery ==
    /\ pc = "flat_query"
    /\ typed' = <<>>
    /\ \/ /\ \E n \in 0..MaxMembers : flat_len' = n
          /\ meta_queries' = meta_queries + 1
          /\ pc' = "ask_all"
          /\ crash' = crash
       \/ /\ crash' = "extract_info"
          /\ pc' = "crashed"
          /\ meta_queries' = meta_queries + 1
          /\ flat_len' = flat_len
    /\ UNCHANGED <<url, is_playlist, download_all, selected_indices,
                   is_audio, audio_fmt, res, start, end, trim_tag, dir_created,
                   asked, all_entries, entries, driverVars>>
    /\ UNCHANGED template

\* one pass of ask's loop at a call site that is not answered validly
AskAgain(choices) ==
    \E raw \in AskTexts :
        /\ ask(choices, raw).kind = "invalid"
        /\ typed' = Strip(raw)
        /\ UNCHANGED <<pc, crash, requestVars, dir_created, asked, catalogVars, driverVars>>

\* int(sel) raises inside ask: nothing catches it
AskRaise(choices) ==
    \E raw \in AskTexts :
        /\ ask(choices, raw).kind = "raise"
        /\ typed' = Strip(raw)
        /\ crash' = "ask"
        /\ pc' = "crashed"
        /\ UNCHANGED <<requestVars, dir_created, asked, catalogVars, driverVars>>

\* line 116-118
AskAll ==
    /\ pc = "ask_all"
    /\ \/ AskAgain(MenuPlaylist)
       \/ AskRaise(MenuPlaylist)
       \/ \E raw \in AskTexts :
            LET r == ask(MenuPlaylist, raw) IN
            /\ r.kind = "return"
            /\ typed' = Strip(raw)
            /\ asked' = Append(asked, "members")
            /\ download_all' = (r.value # "Pilih sebagian")
            /\ pc' = IF r.value = "Pilih sebagian" THEN "sel_input" ELSE "ask_mode"
            /\ UNCHANGED <<crash, url, is_playlist, selected_indices, flat_len,
                           is_audio, audio_fmt, res, start, end, trim_tag,
                           dir_created, catalogVars, driverVars>>
    /\ UNCHANGED template

\* lines 119-122: the member list is printed and the selection is read
SelInput ==
    /\ pc = "sel_input"
    /\ \E raw \in SelTexts : typed' = raw
    /\ asked' = Append(asked, "selection")
    /\ pc' = "sel_parse"
    /\ UNCHANGED <<crash, requestVars, dir_created, catalogVars, driverVars>>
    /\ UNCHANGED template

\* lines 123-127
SelParse ==
    /\ pc = "sel_parse"
    /\ LET r == ParseSelection(typed, flat_len) IN
        /\ selected_indices' = r.value
        /\ pc' = IF r.kind = "exit" THEN "exit_input" ELSE "ask_mode"
    /\ typed' = <<>>
    /\ UNCHANGED <<crash, url, is_playlist, download_all, flat_len,
                   is_audio, audio_fmt, res, start, end, trim_tag, dir_created,
                   asked, catalogVars, driverVars>>
    /\ UNCHANGED template

\* lines 129-130
AskMode ==
    /\ pc = "ask_mode"
    /\ \/ AskAgain(MenuMode)
       \/ AskRaise(MenuMode)
       \/ \E raw \in AskTexts :
            LET r == ask(MenuMode, raw) IN
            /\ r.kind = "return"
            /\ typed' = Strip(raw)
            /\ asked' = Append(asked, "kind")
            /\ is_audio' = (r.value = "Audio only")
            /\ pc' = IF r.value = "Audio only" THEN "ask_codec" ELSE "ask_res"
            /\ UNCHANGED <<crash, url, is_playlist, download_all, selected_indices,
                           flat_len, audio_fmt, res, start, end, trim_tag,
                           dir_created, catalogVars, driverVars>>
    /\ UNCHANGED template

\* lines 133-135
AskCodec ==
    /\ pc = "ask_codec"
    /\ \/ AskAgain(MenuCodec)
       \/ AskRaise(MenuCodec)
       \/ \E raw \in AskTexts :
            LET r == ask(MenuCodec, raw) IN
            /\ r.kind = "return"
            /\ typed' = Strip(raw)
            /\ asked' = Append(asked, "codec")
            /\ audio_fmt' = r.value
            /\ start' = NoneT
            /\ end' = NoneT
            /\ pc' = "ask_partial"
            /\ UNCHANGED <<crash, url, is_playlist, download_all, selected_indices,
                           flat_len, is_audio, res, trim_tag,
                           dir_created, catalogVars, driverVars>>
    /\ UNCHANGED template

\* lines 146-148
AskRes ==
    /\ pc = "ask_res"
    /\ \/ AskAgain(MenuRes)
       \/ AskRaise(MenuRes)
       \/ \E raw \in AskTexts :
            LET r == ask(MenuRes, raw) IN
            /\ r.kind = "return"
            /\ typed' = Strip(raw)
            /\ asked' = Append(asked, "resolution")
            /\ res' = r.value
            /\ start' = NoneT
            /\ end' = NoneT
            /\ pc' = "ask_partial"
            /\ UNCHANGED <<crash, url, is_playlist, download_all, selected_indices,
                           flat_len, is_audio, audio_fmt, trim_tag,
                           dir_created, catalogVars, driverVars>>
    /\ UNCHANGED template

\* lines 136-137 and 149-150
AskPartial ==
    /\ pc = "ask_partial"
    /\ LET menu == IF is_audio THEN MenuPartialAudio ELSE MenuPartialVideo IN
       \/ AskAgain(menu)
       \/ AskRaise(menu)
       \/ \E raw \in AskTexts :
            LET r == ask(menu, raw) IN
            /\ r.kind = "return"
            /\ typed' = Strip(raw)
            /\ asked' = Append(asked, "section")
            /\ pc' = IF r.value = "Specific time range" THEN "in_times" ELSE "mkdir"
            /\ UNCHANGED <<crash, requestVars, dir_created, catalogVars, driverVars>>
    /\ UNCHANGED template

\* lines 138-139 (audio) and 151-152 (video): the two prompts
EnterTimes ==
    /\ pc = "in_times"
    /\ \E t \in TimeTexts :
        /\ typed' = t[2]
        /\ start' = Strip(t[1])
        /\ end' = Strip(t[2])
    /\ asked' = Append(asked, "times")
    /\ pc' = "normalize"
    /\ UNCHANGED <<crash, url, is_playlist, download_all, selected_indices,
                   flat_len, is_audio, audio_fmt, res, trim_tag, dir_created,
                   catalogVars, driverVars>>
    /\ UNCHANGED template

\* lines 140-144 (audio) and 153-157 (video)
NormalizeTimes ==
    /\ pc = "normalize"
    /\ start' = NormalizeTime(start)
    /\ end' = NormalizeTime(end)
    /\ trim_tag' = TrimTag(NormalizeTime(start), NormalizeTime(end))
    /\ typed' = <<>>
    /\ pc' = "mkdir"
    /\ UNCHANGED <<crash, url, is_playlist, download_all, selected_indices,
                   flat_len, is_audio, audio_fmt, res, dir_created, asked,
                   catalogVars, driverVars>>
    /\ UNCHANGED template

----------------------------------------------------------------------------
(* Output directory and the metadata query (lines 160-180) *)

resolverVars == <<requestVars, asked>>

\* lines 160-169
Mkdir ==
    /\ pc = "mkdir"
    /\ dir_created' = TRUE
    /\ typed' = <<>>
    /\ pc' = "meta_query"
    /\ UNCHANGED <<crash, resolverVars, catalogVars, driverVars>>
    /\ UNCHANGED template

\* lines 172-180: the full metadata query returns, or raises
MetaQuery ==
    /\ pc = "meta_query"
    /\ meta_queries' = meta_queries + 1
    /\ \/ /\ ~is_playlist
          /\ \E t \in Titles : entries' = <<Entry(1, t)>>
          /\ all_entries' = <<>>
          /\ pc' = "loop"
          /\ idx' = 1
          /\ crash' = crash
       \/ /\ is_playlist
          /\ \E all \in Playlists(flat_len) :
                /\ all_entries' = all
                /\ entries' = FilterEntries(all, 1, download_all, selected_indices)
          /\ pc' = "loop"
          /\ idx' = 1
          /\ crash' = crash
       \/ /\ crash' = "extract_info"
          /\ pc' = "crashed"
          /\ UNCHANGED <<all_entries, entries, idx>>
    /\ UNCHANGED <<typed, resolverVars, dir_created, started, cur_title, error_msg, attempts,
                   cuts, printed, success, files_at_plan, src_file, rc, tried, placed,
                   files, summary>>
    /\ UNCHANGED template

----------------------------------------------------------------------------
(* What is handed to the extraction library and to the transcoder *)

\* line 182
try_fragment_cut == Truthy(start) /\ Truthy(end)

\* line 226-228
res_to_height(r) ==
    CASE r = "1080p" -> 1080 [] r = "720p" -> 720
      [] r = "480p" -> 480 [] r = "360p" -> 360 [] OTHER -> 1080

\* one "/"-separated alternative of a format selector
Alt(streams, hop, h, vcodec, aext) ==
    [streams |-> streams, hop |-> hop, h |-> h, vcodec |-> vcodec, aext |-> aext]

\* lines 227-237
VideoFormat(r) ==
    IF r # "auto"
    THEN LET h == res_to_height(r) IN
         << Alt("bv*+ba", "=", h, "avc1|h264", "m4a"),
            Alt("bv*+ba", "=", h, "any", "any"),
            Alt("bv*+ba", "<=", h, "avc1|h264", "any"),
            Alt("bv*+ba", "<=", h, "any", "any"),
            Alt("b", "<=", h, "any", "any") >>
    ELSE << Alt("bv*+ba", "none", 0, "any", "any"), Alt("b", "none", 0, "any", "any") >>

\* line 212
AudioFormat == << Alt("bestaudio", "none", 0, "any", "any"),
                  Alt("best", "none", 0, "any", "any") >>

\* line 319
FallbackVideoFormat == << Alt("b", "<=", 480, "any", "any"),
                          Alt("b", "none", 0, "any", "any") >>

TimeArgs(s, e) == [ss |-> s, to |-> e]
NoArgs == TimeArgs(NoneT, NoneT)

\* line 205: the output template (the extension is the library's)
OutTmpl(title) == Name(title, 0, "%(ext)s")

\* lines 207-244: ydl_opts of the primary attempt
PrimaryOpts(title) ==
    [ outtmpl |-> OutTmpl(title),
      format |-> IF is_audio THEN AudioFormat ELSE VideoFormat(res),
      postprocessors |->
          IF is_audio
          THEN <<[key |-> "FFmpegExtractAudio", codec |-> audio_fmt, quality |-> "192"]>>
          ELSE <<[key |-> "FFmpegVideoConvertor", codec |-> "mp4", quality |-> "-"]>>,
      postprocessor_args |->
          IF is_audio /\ try_fragment_cut THEN TimeArgs(start, end) ELSE NoArgs,
      merge_output_format |-> IF is_audio THEN "unset" ELSE "mp4",
      download_ranges |-> "unset",
      force_keyframes_at_cuts |-> "unset" ]

\* lines 317-321: ydl_opts_fallback
FallbackOpts(title) ==
    [ outtmpl |-> OutTmpl(title),
      format |-> IF is_audio THEN AudioFormat ELSE FallbackVideoFormat,
      postprocessors |-> <<>>,
      postprocessor_args |->
          IF is_audio /\ try_fragment_cut THEN TimeArgs(start, end) ELSE NoArgs,
      merge_output_format |-> "unset",
      download_ranges |-> "unset",
      force_keyframes_at_cuts |-> "unset" ]

\* lines 270-278 / 331 ("copy") and 282-293 ("reencode")
CutCmd(kind, input) == [kind |-> kind, ss |-> start, to |-> end, input |-> input]

\* exit code standing for a transcoder call that raised instead of returning
Raised == 0 - 1

\* size standing for "no file" at the temporary cut's path
Absent == 0 - 1

\* one transcoder run: its command, what the call returned (lines 279, 294, 332)
\* and what is at the temporary cut's path when it is over
CutRun(kind, input, code, fs) ==
    [kind |-> CutCmd(kind, input).kind, ss |-> CutCmd(kind, input).ss,
     to |-> CutCmd(kind, input).to, input |-> CutCmd(kind, input).input,
     code |-> code,
     size |-> IF Exists(fs, Name(cur_title, 0, TmpExt))
              THEN SizeOf(fs, Name(cur_title, 0, TmpExt)) ELSE Absent]

\* a variant that matches the signatures case-sensitively
KnownSignature_CaseSensitive(msg) ==
    \/ Contains(msg, <<"s","a","b","r">>)
    \/ Contains(msg, <<"f","o","r","m","a","t">>)

\* line 314
KnownSignature(msg) ==
    \/ Contains(Lower(msg), <<"s","a","b","r">>)
    \/ Contains(Lower(msg), <<"f","o","r","m","a","t">>)

\* extensions a successful download can leave at the templated path
PrimaryExts == IF is_audio THEN {audio_fmt} ELSE {"mp4"}
FallbackExts == IF is_audio THEN {"webm", "m4a"} ELSE {"mp4", "webm"}

\* the directory after a successful download to name: the file is written, or,
\* when it was already there, possibly left as it was
Downloaded(fs, name) ==
    {Write(fs, File(name, "full", MinBytes * 4))}
        \cup (IF Exists(fs, name) THEN {fs} ELSE {})

\* the directory after a transcoder run with output name: untouched or written
CutOutputs(fs, name) ==
    {fs} \cup {Write(fs, File(name, "clip", sz)) : sz \in Sizes}

final_file == Name(cur_title, 0, "mp4")
trimmed_tmp == Name(cur_title, 0, TmpExt)

\* line 257: glob "<title>*<quality_tag_base>.*"
GlobLoose(fs) ==
    {n \in NamesOf(fs) : StartsWith(n.t, cur_title) /\ n.d = 0}

\* lines 259 and 329: glob "<base_name>.*"
GlobBase(fs) ==
    {n \in NamesOf(fs) : n.t = cur_title /\ n.d = 0}

\* line 280
CopyCutFailed(code, fs) ==
    code # 0 \/ ~Exists(fs, trimmed_tmp) \/ SizeOf(fs, trimmed_tmp) < MinBytes

\* line 295
CutAccepted(fs) ==
    Exists(fs, trimmed_tmp) /\ SizeOf(fs, trimmed_tmp) > MinBytes

\* line 333
FallbackCutAccepted(code, fs) == code = 0 /\ Exists(fs, trimmed_tmp)

----------------------------------------------------------------------------
(* Fetch-and-Postprocess Driver (lines 199-351) *)

fixedVars == <<typed, resolverVars, dir_created, meta_queries, entries>>

Say(msg) == printed' = Append(printed, msg)

\* lines 199-246
LoopNext ==
    /\ pc = "loop"
    /\ all_entries' = <<>>
    /\ IF idx > Len(entries)
       THEN /\ pc' = "summary"
            /\ UNCHANGED itemVars
       ELSE IF entries[idx] = NullEntry
       THEN /\ idx' = idx + 1
            /\ pc' = "loop"
            /\ UNCHANGED <<started, cur_title, error_msg, attempts, cuts, printed, success,
                           files_at_plan, src_file, rc, tried, placed>>
       ELSE /\ cur_title' = entries[idx].title
            /\ started' = Append(started, idx)
            /\ attempts' = <<>>
            /\ cuts' = <<>>
            /\ printed' = <<"downloading">>
            /\ success' = FALSE
            /\ error_msg' = NoneT
            /\ placed' = FALSE
            /\ files_at_plan' = NamesOf(files)
            /\ src_file' = NoName
            /\ rc' = 0
            /\ tried' = {}
            /\ pc' = "primary"
            /\ idx' = idx
    /\ UNCHANGED <<crash, fixedVars, files, summary>>
    /\ UNCHANGED template

\* where the primary attempt's success leads (line 254)
AfterPrimaryOk == IF try_fragment_cut /\ ~is_audio THEN "trim_glob" ELSE "item_ok"

\* lines 249-252: the primary attempt succeeds
PrimaryOk ==
    /\ pc = "primary"
    /\ attempts' = Append(attempts, PrimaryOpts(cur_title))
    /\ \E x \in PrimaryExts : files' \in Downloaded(files, Name(cur_title, 0, x))
    /\ success' = TRUE
    /\ pc' = AfterPrimaryOk
    /\ UNCHANGED <<crash, fixedVars, all_entries, idx, started, cur_title, error_msg, cuts,
                   printed, files_at_plan, src_file, rc, tried, placed, summary>>
    /\ UNCHANGED template

\* a variant that lets an error without a known signature propagate
PrimaryHandler_Reraise(msg) == IF KnownSignature(msg) THEN "fallback" ELSE "crashed"

\* where an error of the primary attempt leads (lines 312-314, 347-348)
PrimaryHandler(msg) == IF KnownSignature(msg) THEN "fallback" ELSE "item_end"

\* lines 249-251, 312-315, 347-348: the primary attempt raises
PrimaryRaise ==
    /\ pc = "primary"
    /\ attempts' = Append(attempts, PrimaryOpts(cur_title))
    /\ \E msg \in ErrMsgs :
        /\ error_msg' = Lower(msg)
        /\ pc' = PrimaryHandler(msg)
        /\ Say(IF PrimaryHandler(msg) = "fallback" THEN "sabr_warning" ELSE "failed")
    /\ UNCHANGED <<crash, fixedVars, all_entries, idx, started, cur_title, cuts,
                   success, files, files_at_plan, src_file, rc, tried, placed, summary>>
    /\ UNCHANGED template

\* lines 256-269
TrimGlob ==
    /\ pc = "trim_glob"
    /\ LET loose == GlobLoose(files)
           cands == IF loose = {} THEN GlobBase(files) ELSE loose
       IN IF cands # {}
          THEN /\ src_file' = Newest(files, cands)
               /\ pc' = "cut_copy"
          ELSE /\ src_file' = src_file
               /\ pc' = "item_ok"
    /\ UNCHANGED <<crash, fixedVars, all_entries, idx, started, cur_title, error_msg, attempts,
                   cuts, printed, success, files, files_at_plan, rc, tried, placed, summary>>
    /\ UNCHANGED template

\* line 309-310: an exception inside the trim pass
TrimError ==
    /\ Say("trimming_error")
    /\ pc' = "item_ok"

\* lines 270-280: the stream-copy cut
CutCopy ==
    /\ pc = "cut_copy"
    /\ tried' = tried \cup {"copy"}
    /\ \/ /\ \E code \in {0, 1} :
                /\ rc' = code
                /\ files' \in CutOutputs(files, trimmed_tmp)
                /\ cuts' = Append(cuts, CutRun("copy", src_file, code, files'))
                /\ pc' = IF CopyCutFailed(code, files') THEN "cut_reencode" ELSE "accept"
          /\ printed' = printed
       \/ /\ TrimError
          /\ cuts' = Append(cuts, CutRun("copy", src_file, Raised, files))
          /\ UNCHANGED <<rc, files>>
    /\ UNCHANGED <<crash, fixedVars, all_entries, idx, started, cur_title, error_msg, attempts,
                   success, files_at_plan, src_file, placed, summary>>
    /\ UNCHANGED template

\* lines 281-294: the re-encode cut
CutReencode ==
    /\ pc = "cut_reencode"
    /\ tried' = tried \cup {"reencode"}
    /\ \/ /\ files' \in CutOutputs(files, trimmed_tmp)
          /\ \E code \in {0, 1} :
                cuts' = Append(cuts, CutRun("reencode", src_file, code, files'))
          /\ pc' = "accept"
          /\ printed' = printed
       \/ /\ TrimError
          /\ cuts' = Append(cuts, CutRun("reencode", src_file, Raised, files))
          /\ files' = files
    /\ UNCHANGED <<crash, fixedVars, all_entries, idx, started, cur_title, error_msg, attempts,
                   success, files_at_plan, src_file, rc, placed, summary>>
    /\ UNCHANGED template

\* lines 295-298 and 307-308: the acceptance test, and the removal of final_file
Accept ==
    /\ pc = "accept"
    /\ IF CutAccepted(files)
       THEN IF Exists(files, final_file)
            THEN \/ /\ files' = Delete(files, final_file)
                    /\ pc' = "rename"
                    /\ printed' = printed
                 \/ /\ TrimError
                    /\ files' = files
            ELSE /\ pc' = "rename"
                 /\ UNCHANGED <<files, printed>>
       ELSE /\ Say("trim_failed_keeping_full")
            /\ pc' = "item_ok"
            /\ files' = files
    /\ UNCHANGED <<crash, fixedVars, all_entries, idx, started, cur_title, error_msg, attempts,
                   cuts, success, files_at_plan, src_file, rc, tried, placed, summary>>
    /\ UNCHANGED template

\* line 299
RenameTmp ==
    /\ pc = "rename"
    /\ \/ /\ files' = Rename(files, trimmed_tmp, final_file)
          /\ placed' = TRUE
          /\ pc' = "unlink_src"
          /\ printed' = printed
       \/ /\ TrimError
          /\ UNCHANGED <<files, placed>>
    /\ UNCHANGED <<crash, fixedVars, all_entries, idx, started, cur_title, error_msg, attempts,
                   cuts, success, files_at_plan, src_file, rc, tried, summary>>
    /\ UNCHANGED template

\* lines 301-306
UnlinkSrc ==
    /\ pc = "unlink_src"
    /\ IF Exists(files, src_file) /\ src_file # final_file
       THEN files' \in {Delete(files, src_file), files}
       ELSE files' = files
    /\ Say("trimmed_saved")
    /\ pc' = "item_ok"
    /\ UNCHANGED <<crash, fixedVars, all_entries, idx, started, cur_title, error_msg, attempts,
                   cuts, success, files_at_plan, src_file, rc, tried, placed, summary>>
    /\ UNCHANGED template

\* line 311
ItemOk ==
    /\ pc = "item_ok"
    /\ Say("downloaded")
    /\ pc' = "item_end"
    /\ UNCHANGED <<crash, fixedVars, all_entries, idx, started, cur_title, error_msg, attempts,
                   cuts, success, files, files_at_plan, src_file, rc, tried, placed, summary>>
    /\ UNCHANGED template

\* where the fallback attempt's success leads (line 326)
AfterFallbackOk == IF try_fragment_cut /\ ~is_audio THEN "fb_glob" ELSE "fb_ok"

\* lines 317-325: the fallback attempt succeeds
FallbackOk ==
    /\ pc = "fallback"
    /\ attempts' = Append(attempts, FallbackOpts(cur_title))
    /\ \E x \in FallbackExts : files' \in Downloaded(files, Name(cur_title, 0, x))
    /\ success' = TRUE
    /\ pc' = AfterFallbackOk
    /\ UNCHANGED <<crash, fixedVars, all_entries, idx, started, cur_title, error_msg, cuts,
                   printed, files_at_plan, src_file, rc, tried, placed, summary>>
    /\ UNCHANGED template

\* lines 317-324, 345-346: the fallback attempt raises
FallbackRaise ==
    /\ pc = "fallback"
    /\ attempts' = Append(attempts, FallbackOpts(cur_title))
    /\ Say("failed_completely")
    /\ pc' = "item_end"
    /\ UNCHANGED <<crash, fixedVars, all_entries, idx, started, cur_title, error_msg, cuts,
                   success, files, files_at_plan, src_file, rc, tried, placed, summary>>
    /\ UNCHANGED template

\* lines 329-330 (max() of an empty glob raises, caught at line 342)
FbGlob ==
    /\ pc = "fb_glob"
    /\ IF GlobBase(files) # {}
       THEN /\ src_file' = Newest(files, GlobBase(files))
            /\ pc' = "fb_cut"
       ELSE /\ src_file' = src_file
            /\ pc' = "fb_ok"
    /\ UNCHANGED <<crash, fixedVars, all_entries, idx, started, cur_title, error_msg, attempts,
                   cuts, printed, success, files, files_at_plan, rc, tried, placed, summary>>
    /\ UNCHANGED template

\* lines 331-336: the stream-copy cut of the fallback path, its test, and the
\* removal of final_file (an exception is swallowed at lines 342-343)
FbCut ==
    /\ pc = "fb_cut"
    /\ tried' = tried \cup {"copy"}
    /\ \/ \E code \in {0, 1}, out \in CutOutputs(files, trimmed_tmp) :
            /\ rc' = code
            /\ cuts' = Append(cuts, CutRun("copy", src_file, code, out))
            /\ IF FallbackCutAccepted(code, out)
               THEN IF Exists(out, final_file)
                    THEN \/ /\ files' = Delete(out, final_file)
                            /\ pc' = "fb_rename"
                         \/ /\ files' = out
                            /\ pc' = "fb_ok"
                    ELSE /\ files' = out
                         /\ pc' = "fb_rename"
               ELSE /\ files' = out
                    /\ pc' = "fb_ok"
       \/ /\ pc' = "fb_ok"
          /\ cuts' = Append(cuts, CutRun("copy", src_file, Raised, files))
          /\ UNCHANGED <<rc, files>>
    /\ UNCHANGED <<crash, fixedVars, all_entries, idx, started, cur_title, error_msg, attempts,
                   printed, success, files_at_plan, src_file, placed, summary>>
    /\ UNCHANGED template

\* line 337
FbRename ==
    /\ pc = "fb_rename"
    /\ \/ /\ files' = Rename(files, trimmed_tmp, final_file)
          /\ placed' = TRUE
          /\ pc' = "fb_unlink_src"
       \/ /\ UNCHANGED <<files, placed>>
          /\ pc' = "fb_ok"
    /\ UNCHANGED <<crash, fixedVars, all_entries, idx, started, cur_title, error_msg, attempts,
                   cuts, printed, success, files_at_plan, src_file, rc, tried, summary>>
    /\ UNCHANGED template

\* lines 338-341
FbUnlinkSrc ==
    /\ pc = "fb_unlink_src"
    /\ IF Exists(files, src_file) /\ src_file # final_file
       THEN files' \in {Delete(files, src_file), files}
       ELSE files' = files
    /\ Say("trimmed_saved")
    /\ pc' = "fb_ok"
    /\ UNCHANGED <<crash, fixedVars, all_entries, idx, started, cur_title, error_msg, attempts,
                   cuts, success, files_at_plan, src_file, rc, tried, placed, summary>>
    /\ UNCHANGED template

\* line 344
FbOk ==
    /\ pc = "fb_ok"
    /\ Say("downloaded_with_fallback")
    /\ pc' = "item_end"
    /\ UNCHANGED <<crash, fixedVars, all_entries, idx, started, cur_title, error_msg, attempts,
                   cuts, success, files, files_at_plan, src_file, rc, tried, placed, summary>>
    /\ UNCHANGED template

\* lines 350-351, then the next iteration
ItemEnd ==
    /\ pc = "item_end"
    /\ printed' = IF success THEN printed ELSE Append(printed, "try_manually")
    /\ idx' = idx + 1
    /\ pc' = "loop"
    /\ UNCHANGED <<crash, fixedVars, all_entries, started, cur_title, error_msg, attempts,
                   cuts, success, files, files_at_plan, src_file, rc, tried, placed, summary>>
    /\ UNCHANGED template

\* lines 353-373
MediaSuffixes == {"mp4", "mkv", "webm", "mp3", "m4a", "opus"}

Summary ==
    /\ pc = "summary"
    /\ summary' = IF \E n \in NamesOf(files) : Suffix(n) \in MediaSuffixes
                  THEN "files" ELSE "hints"
    /\ pc' = "done"
    /\ UNCHANGED <<crash, fixedVars, all_entries, itemVars, files>>
    /\ UNCHANGED template

----------------------------------------------------------------------------
(* The session *)

Next ==
    \/ SetupOk \/ SetupFail
    \/ EnterUrl \/ FlatQuery \/ AskAll \/ SelInput \/ SelParse
    \/ AskMode \/ AskCodec \/ AskRes \/ AskPartial \/ EnterTimes \/ NormalizeTimes
    \/ Mkdir \/ MetaQuery
    \/ LoopNext \/ PrimaryOk \/ PrimaryRaise
    \/ TrimGlob \/ CutCopy \/ CutReencode \/ Accept \/ RenameTmp \/ UnlinkSrc \/ ItemOk
    \/ FallbackOk \/ FallbackRaise
    \/ FbGlob \/ FbCut \/ FbRename \/ FbUnlinkSrc \/ FbOk
    \/ ItemEnd \/ Summary

Spec == Init /\ [][Next]_vars

----------------------------------------------------------------------------
(* Timestamp normalization alone (lines 140-144 and 153-157), on every text  *)
(* over NormAlphabet up to MaxTimeLen, in the audio and in the video branch: *)
(* the session stands right after the two prompts of lines 138-139/151-152.  *)

NormAlphabet == {"3", ":"}
NormTexts == TextsUpTo(NormAlphabet, MaxTimeLen)

InitNorm ==
    /\ pc = "normalize"
    /\ crash = "none"
    /\ url = <<"v","=","a">>
    /\ is_playlist = FALSE
    /\ download_all = TRUE
    /\ selected_indices = <<>>
    /\ flat_len = 0
    /\ is_audio \in BOOLEAN
    /\ audio_fmt = IF is_audio THEN "mp3" ELSE "-"
    /\ res = IF is_audio THEN "-" ELSE "720p"
    /\ \E rs \in NormTexts, re \in NormTexts :
          /\ start = Strip(rs)
          /\ end = Strip(re)
          /\ typed = re
    /\ trim_tag = <<>>
    /\ dir_created = FALSE
    /\ asked = <<"url", "kind", IF is_audio THEN "codec" ELSE "resolution",
                 "section", "times">>
    /\ meta_queries = 0
    /\ all_entries = <<>>
    /\ entries = <<>>
    /\ idx = 0
    /\ started = <<>>
    /\ cur_title = <<>>
    /\ attempts = <<>>
    /\ cuts = <<>>
    /\ printed = <<>>
    /\ success = FALSE
    /\ error_msg = NoneT
    /\ placed = FALSE
    /\ files = <<>>
    /\ files_at_plan = {}
    /\ src_file = NoName
    /\ rc = 0
    /\ tried = {}
    /\ summary = "none"
    /\ template = NoName

NextNorm == NormalizeTimes

SpecNorm == InitNorm /\ [][NextNorm]_vars

----------------------------------------------------------------------------
(* unique_template alone (lines 89-98): main never calls it, so it is       *)
(* called here, twice in a row, on every directory made of the candidates   *)
(* base.ext, base (1).ext, ... base (MaxDup).ext of two extensions.         *)

\* line 183
default_ext == IF is_audio THEN audio_fmt ELSE "mp4"

CandidateNames ==
    {Name(<<"a">>, d, x) : d \in 0..MaxDup, x \in {"mp4", "mp3"}}

\* a directory holding exactly the names of S
RECURSIVE DirOf(_)
DirOf(S) ==
    IF S = {} THEN <<>>
    ELSE LET n == CHOOSE m \in S : TRUE
         IN Append(DirOf(S \ {n}), File(n, "old", MinBytes * 4))

InitUnique ==
    /\ pc = "plan"
    /\ crash = "none"
    /\ typed = <<>>
    /\ url = <<"v","=","a">>
    /\ is_playlist = FALSE
    /\ download_all = TRUE
    /\ selected_indices = <<>>
    /\ flat_len = 0
    /\ is_audio \in BOOLEAN
    /\ audio_fmt = IF is_audio THEN "mp3" ELSE "-"
    /\ res = IF is_audio THEN "-" ELSE "720p"
    /\ start = NoneT
    /\ end = NoneT
    /\ trim_tag = <<>>
    /\ dir_created = TRUE
    /\ asked = <<"url", "kind", IF is_audio THEN "codec" ELSE "resolution", "section">>
    /\ meta_queries = 1
    /\ all_entries = <<>>
    /\ entries = <<Entry(1, <<"a">>)>>
    /\ idx = 1
    /\ started = <<>>
    /\ cur_title = <<"a">>
    /\ attempts = <<>>
    /\ cuts = <<>>
    /\ printed = <<>>
    /\ success = FALSE
    /\ error_msg = NoneT
    /\ placed = FALSE
    /\ files \in {DirOf(S) : S \in SUBSET CandidateNames}
    /\ files_at_plan = {}
    /\ src_file = NoName
    /\ rc = 0
    /\ tried = {}
    /\ summary = "none"
    /\ template = NoName

\* one call unique_template(out_dir, base_name, default_ext)
UniqueTemplateCall ==
    /\ pc \in {"plan", "plan_again"}
    /\ template' = unique_template(files, cur_title, default_ext)
    /\ pc' = IF pc = "plan" THEN "plan_again" ELSE "planned"
    /\ UNCHANGED <<crash, fixedVars, all_entries, idx, started, cur_title, error_msg,
                   attempts, cuts, printed, success, files, files_at_plan, src_file,
                   rc, tried, placed, summary>>

NextUnique == UniqueTemplateCall

SpecUnique == InitUnique /\ [][NextUnique]_vars

----------------------------------------------------------------------------
(* Vocabulary of the properties *)

ItemPcs == {"primary", "trim_glob", "cut_copy", "cut_reencode", "accept", "rename",
            "unlink_src", "item_ok", "fallback", "fb_glob", "fb_cut", "fb_rename",
            "fb_unlink_src", "fb_ok", "item_end"}

MenuPcs == {"ask_all", "ask_mode", "ask_codec", "ask_res", "ask_partial"}

MenuAt(p) ==
    CASE p = "ask_all" -> MenuPlaylist
      [] p = "ask_mode" -> MenuMode
      [] p = "ask_codec" -> MenuCodec
      [] p = "ask_res" -> MenuRes
      [] OTHER -> IF is_audio THEN MenuPartialAudio ELSE MenuPartialVideo

\* the positions 1..n of seq that hold a non-null entry, in order
RECURSIVE NonNullUpTo(_, _)
NonNullUpTo(seq, n) ==
    IF n <= 0 THEN <<>>
    ELSE NonNullUpTo(seq, n - 1) \o (IF seq[n] # NullEntry THEN <<n>> ELSE <<>>)

RECURSIVE CountChar(_, _)
CountChar(t, c) ==
    IF t = <<>> THEN 0
    ELSE (IF Head(t) = c THEN 1 ELSE 0) + CountChar(Tail(t), c)

Decimal(t) == t # <<>> /\ \A i \in 1..Len(t) : IsDecimalChar(t[i])

Said(msg) == \E k \in 1..Len(printed) : printed[k] = msg

HasSignature(m) ==
    Contains(m, <<"s","a","b","r">>) \/ Contains(m, <<"f","o","r","m","a","t">>)

----------------------------------------------------------------------------
(* C1: whatever the outcomes of an item (primary error with or without a    *)
(* known signature, fallback error, trim error or failure), the loop goes   *)
(* on: every non-null entry up to the loop's position has been started,     *)
(* the process never ends inside the loop, some step is always possible     *)
(* until the summary, and at the summary every non-null entry was started.  *)
C1_BatchNeverAborts ==
    /\ pc \in ItemPcs =>
          /\ idx \in 1..Len(entries)
          /\ entries[idx] # NullEntry
          /\ started = NonNullUpTo(entries, idx)
    /\ pc = "loop" => started = NonNullUpTo(entries, idx - 1)
    /\ pc \in {"summary", "done"} => started = NonNullUpTo(entries, Len(entries))
    /\ pc \in {"crashed", "exit_url", "exit_setup", "exit_input"} =>
          idx = 0 /\ started = <<>>
    /\ pc \in ItemPcs \cup {"loop", "summary"} => ENABLED Next

\* a two-item run ended with its summary although both items failed, the
\* second after a failed fallback
C1_Witness ==
    /\ pc = "done"
    /\ Len(started) = 2
    /\ files = <<>>
    /\ ~success
    /\ Said("failed_completely")

(* C2: no error raised by the extraction library, the metadata-only queries *)
(* included, ends the process before the end-of-run summary.                *)
C2_LibraryErrorsAreSurvived == ~(pc = "crashed" /\ crash = "extract_info")

(* C3: per item, a fallback attempt is made if and only if the primary      *)
(* attempt raised an error whose lower-cased message contains "sabr" or     *)
(* "format", and once; at most two attempts; an error without a signature   *)
(* ends the item as failed without a fallback; and once a download has      *)
(* succeeded, a trim failure adds no attempt and leaves the item a success. *)
C3_FallbackOnSignatureOnly ==
    pc \in ItemPcs =>
      /\ Len(attempts) <= 2
      /\ (pc = "primary") <=> (attempts = <<>>)
      /\ (Len(attempts) = 2 \/ pc = "fallback")
            <=> (error_msg # NoneT /\ HasSignature(error_msg))
      /\ Len(attempts) >= 1 => attempts[1] = PrimaryOpts(cur_title)
      /\ Len(attempts) = 2 => attempts[2] = FallbackOpts(cur_title)
      /\ (error_msg # NoneT /\ ~HasSignature(error_msg)) =>
            (Len(attempts) = 1 /\ pc = "item_end" /\ ~success /\ cuts = <<>>)
      /\ cuts # <<>> =>
            (success /\ Len(attempts) = (IF error_msg = NoneT THEN 1 ELSE 2))
      /\ (Said("trimming_error") \/ Said("trim_failed_keeping_full")) =>
            (success /\ Len(attempts) = 1 /\ error_msg = NoneT)

\* an item ended after a primary error "sabr", one fallback, and a trim pass
\* that put nothing in place
C3_Witness ==
    /\ pc = "item_end"
    /\ error_msg = <<"s","a","b","r">>
    /\ Len(attempts) = 2
    /\ success
    /\ cuts # <<>>
    /\ ~placed

(* C4: for a video item with a trim window, the first attempt handed to the *)
(* extraction library carries a section directive (download_ranges) and     *)
(* forced keyframe alignment.                                               *)
C4_NativeSectionFirst ==
    (pc \in ItemPcs /\ ~is_audio /\ try_fragment_cut /\ attempts # <<>>) =>
        /\ attempts[1].download_ranges # "unset"
        /\ attempts[1].force_keyframes_at_cuts # "unset"

(* C5: in a single-item session the name handed to the extraction library   *)
(* is the first of base.ext, base (1).ext, base (2).ext, ... that did not   *)
(* exist when the item was planned.                                         *)
C5_FirstFreeName ==
    (pc \in ItemPcs /\ ~is_playlist /\ attempts # <<>>) =>
        LET d == attempts[1].outtmpl.d
            ext == IF is_audio THEN audio_fmt ELSE "mp4"
        IN /\ Name(cur_title, d, ext) \notin files_at_plan
           /\ \A k \in 0..(d - 1) : Name(cur_title, k, ext) \in files_at_plan

(* C6: a video item with a trim window whose download succeeded, by the     *)
(* primary or the fallback attempt, and for which no trimmed file was put   *)
(* in place, ends with the user told that trimming did not apply.           *)
C6_TrimFailureReported ==
    (pc = "item_end" /\ ~is_audio /\ try_fragment_cut /\ success /\ ~placed) =>
        (Said("trimming_error") \/ Said("trim_failed_keeping_full"))

(* C7: every start and end timestamp handed to the extraction library's     *)
(* postprocessor arguments or to the transcoder has exactly three fields.   *)
C7_TimestampsThreeField ==
    /\ \A k \in 1..Len(attempts) :
          attempts[k].postprocessor_args # NoArgs =>
             /\ CountChar(attempts[k].postprocessor_args.ss, ":") = 2
             /\ CountChar(attempts[k].postprocessor_args.to, ":") = 2
    /\ \A k \in 1..Len(cuts) :
          /\ CountChar(cuts[k].ss, ":") = 2
          /\ CountChar(cuts[k].to, ":") = 2

(* C8: the normalization step maps a two-field start or end text t to       *)
(* "00:" followed by t and leaves a three-field text as it is, in the audio *)
(* branch and in the video branch alike.                                    *)
C8_Normalization ==
    [][pc = "normalize" =>
          /\ CountChar(start, ":") = 1 => start' = <<"0","0",":">> \o start
          /\ CountChar(start, ":") = 2 => start' = start
          /\ CountChar(end, ":") = 1 => end' = <<"0","0",":">> \o end
          /\ CountChar(end, ":") = 2 => end' = end]_vars

\* audio branch: a two-field start was prefixed, a three-field end was kept
C8_Witness ==
    /\ pc = "mkdir"
    /\ is_audio
    /\ start = <<"0","0",":","3",":","3">>
    /\ end = <<"3",":","3",":","3">>

\* the 1-based positions a typed selection names: a token that, stripped, is a
\* decimal number within 1..n
PositionsTyped(raw, n) ==
    {p \in 1..n : \E k \in 1..Len(Split(raw, ",")) :
        LET t == Strip(Split(raw, ",")[k]) IN Decimal(t) /\ IntOf(t) = p}

\* the members of all at the positions of P, in order, each once
RECURSIVE PickFrom(_, _, _)
PickFrom(all, P, n) ==
    IF n = 0 THEN <<>>
    ELSE PickFrom(all, P, n - 1) \o (IF n \in P THEN <<all[n]>> ELSE <<>>)

PositionsSelected == {selected_indices[k] + 1 : k \in 1..Len(selected_indices)}

AskStep ==
    pc \in MenuPcs =>
       LET t == typed' IN
       IF Decimal(t) /\ IntOf(t) \in 1..Len(MenuAt(pc))
       THEN LET choice == MenuAt(pc)[IntOf(t)] IN
            /\ pc' \notin {pc, "crashed"}
            /\ pc = "ask_all" => download_all' = (choice = "Semua video")
            /\ pc = "ask_mode" => is_audio' = (choice = "Audio only")
            /\ pc = "ask_codec" => audio_fmt' = choice
            /\ pc = "ask_res" => res' = choice
            /\ pc = "ask_partial" =>
                  pc' = (IF choice = "Specific time range" THEN "in_times" ELSE "mkdir")
       ELSE /\ pc' = pc
            /\ crash' = crash
            /\ UNCHANGED requestVars
            /\ UNCHANGED catalogVars
            /\ UNCHANGED driverVars

(* C10: at a menu, an input that is a valid index 1..len(choices) makes ask *)
(* return the choice at that index; any other input shows the same menu     *)
(* again: nothing is raised and no session state changes.                   *)
C10_AskContract == [][AskStep]_vars

\* has the prompt been shown
Asked(q) == \E k \in 1..Len(asked) : asked[k] = q

\* the place of a prompt in the stated order of decisions
Rank(q) ==
    CASE q = "url" -> 1
      [] q = "kind" -> 2
      [] q \in {"codec", "resolution"} -> 3
      [] q = "section" -> 4
      [] q = "times" -> 5
      [] q = "members" -> 6
      [] OTHER -> 7

(* C11: the prompts come in the stated order (URL, kind, codec or           *)
(* resolution, section and its timestamps, and only then the member         *)
(* selection of a collection), and no metadata query and no creation of the *)
(* output directory happens before the section question has been asked.     *)
C11_StatedOrder ==
    /\ \A i, j \in 1..Len(asked) : i < j => Rank(asked[i]) < Rank(asked[j])
    /\ (meta_queries > 0 \/ dir_created) => Asked("section")

\* a transcoder run that succeeded in the boundary's sense
CutSucceeded(c) == c.code = 0 /\ c.size > MinBytes

\* a stream-copy run that exited non-zero, left no file, or a file too small
CopyFailed(c) == c.code > 0 \/ (c.code = 0 /\ c.size < MinBytes)

(* C12: in a trim pass, of the primary or of the fallback path, a stream-   *)
(* copy cut that exited non-zero, left no output or left an output below    *)
(* the size threshold is followed by a re-encode cut.                       *)
C12_ReencodeAfterFailedCopy ==
    \A k \in 1..Len(cuts) :
        (cuts[k].kind = "copy" /\ CopyFailed(cuts[k])) =>
            \/ pc = "cut_reencode"
            \/ (k < Len(cuts) /\ cuts[k + 1].kind = "reencode")

(* C13: from the moment a trim pass has found the downloaded file until the *)
(* item ends, the untrimmed file or the final trimmed file exists, also     *)
(* when the downloaded file carries the final name and also after a failed  *)
(* rename.                                                                  *)
C13_SourceOrFinalExists ==
    (pc \in ItemPcs /\ src_file # NoName) =>
        \/ Exists(files, src_file)
        \/ (placed /\ Exists(files, final_file))

(* C14: the temporary cut has been renamed to the final name only if the    *)
(* transcoder run that produced it exited with code zero and left a file    *)
(* of more than 1024 bytes.                                                 *)
C14_RenamedOnlyAfterSuccess ==
    placed => (cuts # <<>> /\ CutSucceeded(cuts[Len(cuts)]))

(* C15: when a trimmed item ends, a temporary cut file that was not there  *)
(* before the item is still there only if both the stream-copy and the      *)
(* re-encode cut were run and both failed.                                  *)
C15_TempCleanedUp ==
    (/\ pc = "item_end"
     /\ cuts # <<>>
     /\ trimmed_tmp \notin files_at_plan
     /\ Exists(files, trimmed_tmp)) =>
        /\ Len(cuts) = 2
        /\ cuts[1].kind = "copy" /\ ~CutSucceeded(cuts[1])
        /\ cuts[2].kind = "reencode" /\ ~CutSucceeded(cuts[2])

(* C16: every attempt of an audio item, primary or fallback, carries the    *)
(* selector bestaudio/best, the extract-audio postprocessor for the chosen  *)
(* codec at quality 192 and, when a trim window was given, the trim         *)
(* arguments.                                                               *)
C16_AudioAttemptsAlike ==
    is_audio =>
        \A k \in 1..Len(attempts) :
            /\ attempts[k].format = AudioFormat
            /\ attempts[k].postprocessors =
                  <<[key |-> "FFmpegExtractAudio", codec |-> audio_fmt, quality |-> "192"]>>
            /\ attempts[k].postprocessor_args =
                  (IF Truthy(start) /\ Truthy(end) THEN [ss |-> start, to |-> end]
                   ELSE NoArgs)

(* C17: the format selector of the fallback attempt is never the selector   *)
(* of the primary attempt.                                                  *)
C17_FallbackSelectorDiffers ==
    Len(attempts) = 2 => attempts[2].format # attempts[1].format

\* what a call of unique_template has returned, against the directory
TemplateIsFirstFree ==
    pc \in {"plan_again", "planned"} =>
        /\ template.t = cur_title
        /\ template.x = "%(ext)s"
        /\ template.d \in 0..(MaxDup + 1)
        /\ Name(cur_title, template.d, default_ext) \notin NamesOf(files)
        /\ \A k \in 0..(template.d - 1) :
              Name(cur_title, k, default_ext) \in NamesOf(files)
        /\ files = <<>> => template.d = 0

\* what a call of unique_template leaves alone
TemplateCallIsPure ==
    pc \in {"plan", "plan_again"} =>
        /\ files' = files
        /\ pc = "plan_again" => template' = template

(* C18: unique_template returns the template of the smallest n >= 0 whose   *)
(* candidate does not exist (base for an empty directory, base (2) when     *)
(* base and base (1) exist), leaves the directory as it was, and returns    *)
(* the same when called again.                                              *)
C18_UniqueTemplate == []TemplateIsFirstFree /\ [][TemplateCallIsPure]_vars

\* base.mp4, base (1).mp4 and base (3).mp4 exist: both calls returned base (2)
C18_Witness ==
    /\ pc = "planned"
    /\ ~is_audio
    /\ {d \in 0..MaxDup : Name(cur_title, d, "mp4") \in NamesOf(files)} = {0, 1, 3}
    /\ template = Name(cur_title, 2, "%(ext)s")

(* C19: in the primary path, a stream-copy cut that is not followed by a    *)
(* re-encode cut is accepted: when the acceptance test is reached after the *)
(* copy cut alone, the temporary cut exists and is larger than 1024 bytes.  *)
C19_CopyAcceptedOrRetried ==
    (pc = "accept" /\ tried = {"copy"}) =>
        (Exists(files, trimmed_tmp) /\ SizeOf(files, trimmed_tmp) > MinBytes)

(* C20: when an item has been downloaded, its name carries a trim tag if    *)
(* and only if a trim was requested downstream: trim arguments in the       *)
(* attempt of an audio item, a transcoder cut for a video item.             *)
C20_TagIffTrim ==
    (pc = "item_end" /\ success) =>
        ((trim_tag # <<>>) <=>
            (IF is_audio THEN attempts[1].postprocessor_args # NoArgs
             ELSE cuts # <<>>))

====
